---- MODULE Spec2Model ----
(***************************************************************************)
(* Model of src/predict.py: the driver main() and the four stages it       *)
(* composes (setup_yolo_model, download_images_from_telegram,              *)
(* detect_objects_in_images, create_database_table,                        *)
(* store_detection_results), over a file system directory and one SQLite   *)
(* connection.                                                             *)
(*                                                                         *)
(* Four specifications:                                                    *)
(*   Spec       one run of main() from an arbitrary starting environment   *)
(*   SpecFetch  download_images_from_telegram called on some directory     *)
(*   SpecDetect detect_objects_in_images called on an arbitrary directory  *)
(*   SpecStore  create_database_table / store_detection_results called in  *)
(*              any order, any number of times, on one open connection     *)
(*                                                                         *)
(* Numbers that the program handles as floats are kept as their decimal    *)
(* text ("0.87"); NULL is what Python's None is bound to by sqlite3.       *)
(***************************************************************************)
EXTENDS Integers, Sequences, FiniteSets, TLC

VARIABLES
    caller,       \* who called the running function: "main" or "test"
    pc,           \* statement of main() being executed, "done", "raised", "idle"
    exc,          \* exception propagating out of the last call, or "none"
    failedStage,  \* stage whose call raised, or "none"
    conn,         \* the sqlite3 connection: "none", "open", "closed"
    model,        \* the detection capability: "none", "loaded"
    dirExists,    \* whether the image directory exists
    dir,          \* image directory: file name -> content
    i,            \* loop index of download_images_from_telegram
    requests,     \* indices of the GET requests issued by the fetcher call
    bodies,       \* bodies written by the fetcher call, in order
    dir0,         \* the directory as it was when the fetcher was called
    seen,         \* files the detector's glob loop has already yielded
    acc,          \* the detector's local list `detections`
    detections,   \* the list the detector returned / the store is given
    tables,       \* tables of the database file
    table,        \* committed rows of object_detections
    tx,           \* rows inserted by the open transaction, not yet committed
    gi,           \* store loop: index of the current detection group
    bi,           \* store loop: index of the current zipped triple
    table0,       \* committed rows when the running database call began
    started,      \* stages invoked so far
    completed,    \* stages that returned normally
    did           \* effects so far: "infer", "create", "insert"

vars == <<caller, pc, exc, failedStage, conn, model, dirExists, dir, i,
          requests, bodies, dir0, seen, acc, detections, tables, table, tx,
          gi, bi, table0, started, completed, did>>

fetchVars == <<dirExists, dir, i, requests, bodies, dir0>>
detectVars == <<seen, acc, detections>>
dbVars == <<tables, table, tx, gi, bi, table0>>

----------------------------------------------------------------------------
(* Bounds and program constants *)

\* range(5): the fixed batch size of the fetcher
BatchSize == 5

\* most objects the capability reports for one image
MaxObjects == 1

\* most rows the database file holds before the run starts (Spec)
MaxOldRows == 1

\* most detection groups a test hands to store_detection_results (SpecStore)
MaxGroups == 2

\* most rows the table is allowed to reach in SpecStore
MaxRows == 3

NULL == "NULL"

TableName == "object_detections"

----------------------------------------------------------------------------
(* Values *)

Min(a, b) == IF a < b THEN a ELSE b

\* box[:n] : the first n elements of a list, fewer if the list is shorter
Take(s, n) == SubSeq(s, 1, Min(n, Len(s)))

\* f"image_{i}.jpg"
FileName(k) ==
    <<"image_0.jpg", "image_1.jpg", "image_2.jpg", "image_3.jpg",
      "image_4.jpg">>[k + 1]

Files == {FileName(k) : k \in 0 .. BatchSize - 1}

Absent == <<"absent", 0>>
Garbage == <<"garbage", 0>>
Empty == <<"empty", 0>>
Img(n) == <<"img", n>>

\* cv2.imread of an unreadable file
None == <<"None", 0>>

\* decodable image bodies: one showing no object, one showing MaxObjects objects
Images == {Img(0), Img(MaxObjects)}

\* rows of results.xywh[0]: x_center, y_center, width, height, confidence, class
RowA == <<"120.5", "64.0", "40.0", "30.0", "0.87", "1.0">>
RowB == <<"10.0", "20.0", "5.0", "6.0", "0.5", "0.0">>

\* results.names: class index -> label
ClassNames == <<"person", "cream jar">>

\* .astype(int) of a class column value
AsInt(c) == IF c = "0.0" THEN 0 ELSE 1

----------------------------------------------------------------------------
(* Control: main() runs its statements in order; an exception raised by a  *)
(* call is not caught by main() and ends the run.                          *)

\* the statement of main() that follows the call of `stage`
NextLine(stage) ==
    CASE stage = "connect" -> "load"
      [] stage = "load" -> "fetch"
      [] stage = "fetch" -> "detect"
      [] stage = "detect" -> "schema"
      [] stage = "schema" -> "store"
      [] stage = "store" -> "close"
      [] stage = "close" -> "done"

ReturnSwallowing(stage, ok) ==
    IF caller = "main" THEN NextLine(stage) ELSE "idle"

\* where control goes when the call of `stage` returns (ok) or raises
Return(stage, ok) ==
    IF caller = "main"
    THEN IF ok THEN NextLine(stage) ELSE "raised"
    ELSE "idle"

\* except Exception as e: logging.error(...); raise
Raise(stage, kind) ==
    /\ pc' = Return(stage, FALSE)
    /\ exc' = kind
    /\ failedStage' = stage
    /\ started' = started \cup {stage}
    /\ UNCHANGED completed

\* the call returns normally
Ok(stage) ==
    /\ pc' = Return(stage, TRUE)
    /\ started' = started \cup {stage}
    /\ completed' = completed \cup {stage}
    /\ UNCHANGED <<exc, failedStage>>

\* the call is still running
Running(stage) ==
    /\ started' = started \cup {stage}
    /\ UNCHANGED <<exc, failedStage, completed>>

----------------------------------------------------------------------------
(* main(), line 131: connection = sqlite3.connect("detections.db") *)

Connect ==
    /\ pc = "connect"
    /\ \E ok \in BOOLEAN :
        IF ok
        THEN conn' = "open" /\ Ok("connect")
        ELSE conn' = conn /\ Raise("connect", "sqlite3.Error")
    /\ UNCHANGED <<caller, model, did>>
    /\ UNCHANGED <<fetchVars, detectVars, dbVars>>

(* setup_yolo_model, lines 14-23 *)

LoadModel ==
    /\ pc = "load"
    /\ \E ok \in BOOLEAN :
        IF ok
        THEN model' = "loaded" /\ Ok("load")
        ELSE model' = model /\ Raise("load", "Exception")
    /\ UNCHANGED <<caller, conn, did>>
    /\ UNCHANGED <<fetchVars, detectVars, dbVars>>

(* main(), line 148: connection.close() *)

Close ==
    /\ pc = "close"
    /\ conn' = "closed"
    /\ Ok("close")
    /\ UNCHANGED <<caller, model, did>>
    /\ UNCHANGED <<fetchVars, detectVars, dbVars>>

----------------------------------------------------------------------------
(* download_images_from_telegram, lines 26-44 *)

\* with open(image_path, "wb") as f: f.write(image_data)
WriteFile(d, f, data) == [d EXCEPT ![f] = data]

\* responses of requests.get: a 2xx with an image, a non-2xx with an error
\* page (not raised: .content is read whatever the status), or an exception
Responses == {"2xx", "non2xx", "raise"}

\* outcomes of open + write: written, open failed, write failed after the
\* file was truncated by open(..., "wb")
WriteOutcomes == {"ok", "openfail", "writefail"}

FetchExceptionSwallowed(resp, w) ==
    IF resp # "raise" /\ w # "ok" THEN "OSError" ELSE "none"

\* the exception one loop iteration raises, "none" if it completes
FetchException(resp, w) ==
    IF resp = "raise" THEN "RequestException"
    ELSE IF w # "ok" THEN "OSError"
    ELSE "none"

FetchStepOpeningFirst(d, f, body, resp, w) ==
    IF resp = "raise" \/ w = "writefail" THEN WriteFile(d, f, Empty)
    ELSE IF w = "openfail" THEN d
    ELSE WriteFile(d, f, body)

\* the directory after one loop iteration: the GET comes first (line 35),
\* the file is opened only once the body is there (line 38)
FetchStep(d, f, body, resp, w) ==
    IF resp = "raise" THEN d
    ELSE IF w = "openfail" THEN d
    ELSE IF w = "writefail" THEN WriteFile(d, f, Empty)
    ELSE WriteFile(d, f, body)

\* line 30: os.makedirs(download_dir, exist_ok=True)
FetchMakedirs ==
    /\ pc = "fetch"
    /\ \E ok \in BOOLEAN :
        IF ok \/ dirExists
        THEN /\ dirExists' = TRUE
             /\ pc' = "fetch_loop"
             /\ Running("fetch")
        ELSE /\ dirExists' = dirExists
             /\ Raise("fetch", "OSError")
    /\ i' = 0
    /\ requests' = <<>>
    /\ bodies' = <<>>
    /\ dir0' = dir
    /\ UNCHANGED <<caller, conn, model, dir, did>>
    /\ UNCHANGED <<detectVars, dbVars>>

\* lines 33-41: one iteration of `for i in range(5)`
FetchOne ==
    /\ pc = "fetch_loop"
    /\ i < BatchSize
    /\ \E resp \in Responses, w \in WriteOutcomes, img \in Images :
        LET body == IF resp = "2xx" THEN img ELSE Garbage
            err == FetchException(resp, w)
        IN  /\ resp = "raise" => (w = "ok" /\ img = Img(0))
            /\ resp = "non2xx" => img = Img(0)
            /\ requests' = Append(requests, [idx |-> i, outcome |-> resp])
            /\ dir' = FetchStep(dir, FileName(i), body, resp, w)
            /\ IF err = "none"
               THEN /\ i' = i + 1
                    /\ bodies' = Append(bodies, body)
                    /\ pc' = pc
                    /\ Running("fetch")
               ELSE /\ i' = i
                    /\ bodies' = bodies
                    /\ Raise("fetch", err)
    /\ UNCHANGED <<caller, conn, model, dirExists, dir0, did>>
    /\ UNCHANGED <<detectVars, dbVars>>

\* range(5) is exhausted: the function returns None
FetchReturn ==
    /\ pc = "fetch_loop"
    /\ i = BatchSize
    /\ Ok("fetch")
    /\ UNCHANGED <<caller, conn, model, did>>
    /\ UNCHANGED <<fetchVars, detectVars, dbVars>>

----------------------------------------------------------------------------
(* detect_objects_in_images, lines 47-70 *)

\* Path(image_dir).glob("*.jpg"): the files of the directory, in no
\* particular order; nothing if the directory does not exist
Glob(exists, d) == IF exists THEN {f \in Files : d[f] # Absent} ELSE {}

\* cv2.imread: the decoded image, or None (no exception) for a file that
\* is not an image
Imread(content) == IF content \in Images THEN content ELSE None

\* results.xywh[0] for a decoded image: one row per detected object
Capability(img) ==
    IF img = None THEN <<>>
    ELSE [j \in 1 .. img[2] |-> IF j % 2 = 1 THEN RowA ELSE RowB]

InferErrorIsolating(img, fault) == "none"

\* model(img): the capability raises on None (it reads the image's shape)
\* and may fail on an image (inference failure)
InferError(img, fault) ==
    IF img = None \/ fault THEN "Exception" ELSE "none"

\* lines 58-63: the dict appended for one image
DetectionGroup(name, xywh) ==
    [image |-> name,
     boxes |-> xywh,
     labels |-> [j \in 1 .. Len(xywh) |-> ClassNames[AsInt(xywh[j][6]) + 1]],
     confidences |-> [j \in 1 .. Len(xywh) |-> xywh[j][5]]]

\* lines 51-66: one iteration of the glob loop
DetectOne ==
    /\ pc = "detect"
    /\ \E f \in Glob(dirExists, dir) \ seen, fault \in BOOLEAN :
        LET img == Imread(dir[f])
            err == InferError(img, fault)
        IN  /\ seen' = seen \cup {f}
            /\ did' = did \cup {"infer"}
                          \cup (IF img = None THEN {"decode_fail"} ELSE {})
                          \cup (IF fault THEN {"infer_fail"} ELSE {})
            /\ IF err = "none"
               THEN /\ acc' = Append(acc, DetectionGroup(f, Capability(img)))
                    /\ pc' = pc
                    /\ Running("detect")
               ELSE /\ acc' = acc
                    /\ Raise("detect", err)
    /\ UNCHANGED <<caller, conn, model, detections>>
    /\ UNCHANGED <<fetchVars, dbVars>>

\* line 70: return detections
DetectReturn ==
    /\ pc = "detect"
    /\ seen = Glob(dirExists, dir)
    /\ detections' = acc
    /\ Ok("detect")
    /\ UNCHANGED <<caller, conn, model, seen, acc, did>>
    /\ UNCHANGED <<fetchVars, dbVars>>

----------------------------------------------------------------------------
(* The database: sqlite3 connection in its default (legacy) transaction    *)
(* mode. An INSERT opens a transaction implicitly; `with connection:`      *)
(* commits it when the block ends normally and rolls it back when the      *)
(* block raises. CREATE TABLE runs outside any transaction.                *)

\* AUTOINCREMENT: one more than the largest id ever used
NextId(rows) == IF rows = <<>> THEN 1 ELSE rows[Len(rows)].id + 1

ZipLongest(a, b, c) ==
    [j \in 1 .. Len(a) |->
        [box |-> a[j],
         label |-> IF j <= Len(b) THEN b[j] ELSE NULL,
         confidence |-> IF j <= Len(c) THEN c[j] ELSE NULL]]

\* zip(a, b, c): positional triples, as many as the shortest list has
Zip(a, b, c) ==
    [j \in 1 .. Min(Len(a), Min(Len(b), Len(c))) |->
        [box |-> a[j], label |-> b[j], confidence |-> c[j]]]

\* the row the 7-column positional INSERT adds (lines 86-98)
InsertedRow(id, image, t) ==
    [id |-> id,
     image_name |-> image,
     label |-> t.label,
     confidence |-> t.confidence,
     x_center |-> t.box[1],
     y_center |-> t.box[2],
     width |-> t.box[3],
     height |-> t.box[4]]

ExitAlwaysCommitting(rows, pending, ok) == rows \o pending

\* Connection.__exit__: commit if the block ended normally, else rollback
Exit(rows, pending, ok) == IF ok THEN rows \o pending ELSE rows

CreateErrorIfExists(tbls, fault) ==
    IF fault THEN "sqlite3.Error"
    ELSE IF TableName \in tbls THEN "sqlite3.OperationalError"
    ELSE "none"

\* CREATE TABLE IF NOT EXISTS: an existing table is no error
CreateError(tbls, fault) == IF fault THEN "sqlite3.Error" ELSE "none"

CreateDropping(db) ==
    [tables |-> db.tables \cup {TableName}, rows |-> <<>>]

\* CREATE TABLE IF NOT EXISTS: the table exists afterwards, rows untouched
Create(db) ==
    [tables |-> db.tables \cup {TableName}, rows |-> db.rows]

\* create_database_table, lines 106-126
CreateTable ==
    /\ pc = "schema"
    /\ \E fault \in BOOLEAN :
        LET err == IF conn # "open" THEN "sqlite3.ProgrammingError"
                   ELSE CreateError(tables, fault)
            db == Create([tables |-> tables, rows |-> table])
        IN  IF err = "none"
            THEN /\ tables' = db.tables
                 /\ table' = db.rows
                 /\ did' = did \cup {"create"}
                 /\ Ok("schema")
            ELSE /\ UNCHANGED <<tables, table>>
                 /\ did' = did \cup (IF fault THEN {"db_fault"} ELSE {})
                 /\ Raise("schema", err)
    /\ table0' = table
    /\ UNCHANGED <<caller, conn, model, tx, gi, bi>>
    /\ UNCHANGED <<fetchVars, detectVars>>

\* store_detection_results, lines 75-81: the function is entered and the
\* `with connection:` block begins
StoreEnter ==
    /\ pc = "store"
    /\ pc' = "store_loop"
    /\ gi' = 1
    /\ bi' = 1
    /\ tx' = <<>>
    /\ table0' = table
    /\ Running("store")
    /\ UNCHANGED <<caller, conn, model, tables, table, did>>
    /\ UNCHANGED <<fetchVars, detectVars>>

\* the block raised: rollback, log, re-raise
StoreRaise(kind) ==
    /\ table' = Exit(table, tx, FALSE)
    /\ tx' = <<>>
    /\ UNCHANGED <<gi, bi>>
    /\ Raise("store", kind)

ZipKeys == {"boxes", "labels", "confidences"}

\* lines 83-98: one iteration of the inner loop, or the end of it
StoreInsert ==
    /\ pc = "store_loop"
    /\ gi <= Len(detections)
    /\ LET g == detections[gi]
       IN  IF ~(ZipKeys \subseteq DOMAIN g)
           THEN StoreRaise("KeyError") /\ did' = did
           ELSE LET z == Zip(g.boxes, g.labels, g.confidences)
                IN  IF bi > Len(z)
                    THEN /\ gi' = gi + 1
                         /\ bi' = 1
                         /\ pc' = pc
                         /\ Running("store")
                         /\ UNCHANGED <<table, tx, did>>
                    ELSE LET t == [z[bi] EXCEPT !.box = Take(z[bi].box, 4)]
                         IN  IF Len(t.box) # 4
                             THEN StoreRaise("ValueError") /\ did' = did
                             ELSE IF "image" \notin DOMAIN g
                             THEN StoreRaise("KeyError") /\ did' = did
                             ELSE \E fault \in BOOLEAN :
                                 IF conn # "open" \/ TableName \notin tables \/ fault
                                 THEN /\ StoreRaise("sqlite3.Error")
                                      /\ did' = did \cup {"insert_fail"}
                                 ELSE /\ tx' = Append(tx,
                                            InsertedRow(NextId(table \o tx), g.image, t))
                                      /\ bi' = bi + 1
                                      /\ did' = did \cup {"insert"}
                                      /\ pc' = pc
                                      /\ Running("store")
                                      /\ UNCHANGED <<table, gi>>
    /\ UNCHANGED <<caller, conn, model, tables, table0>>
    /\ UNCHANGED <<fetchVars, detectVars>>

\* the block ends normally: commit, log, return None
StoreCommit ==
    /\ pc = "store_loop"
    /\ gi > Len(detections)
    /\ table' = Exit(table, tx, TRUE)
    /\ tx' = <<>>
    /\ Ok("store")
    /\ UNCHANGED <<caller, conn, model, tables, gi, bi, table0, did>>
    /\ UNCHANGED <<fetchVars, detectVars>>

----------------------------------------------------------------------------
(* Tests: a caller other than main() that calls one function at a time *)

\* detection groups a test hands to store_detection_results
GroupOne ==
    [image |-> "a.jpg", boxes |-> <<RowA>>,
     labels |-> <<"cream jar">>, confidences |-> <<"0.87">>]
GroupTwo ==
    [image |-> "b.jpg", boxes |-> <<RowA, RowB>>,
     labels |-> <<"cream jar", "person">>, confidences |-> <<"0.87", "0.5">>]
GroupEmpty ==
    [image |-> "a.jpg", boxes |-> <<>>, labels |-> <<>>, confidences |-> <<>>]
GroupShortBox ==
    [image |-> "a.jpg", boxes |-> <<<<"120.5", "64.0", "40.0">>>>,
     labels |-> <<"cream jar">>, confidences |-> <<"0.87">>]
GroupFewLabels ==
    [image |-> "a.jpg", boxes |-> <<RowA, RowB>>,
     labels |-> <<"cream jar">>, confidences |-> <<"0.87", "0.5">>]
GroupNoLabels ==
    [image |-> "a.jpg", boxes |-> <<RowA>>, confidences |-> <<"0.87">>]
GroupNullLabel ==
    [image |-> "a.jpg", boxes |-> <<RowA>>,
     labels |-> <<NULL>>, confidences |-> <<"0.87">>]

SampleGroups ==
    {GroupOne, GroupTwo, GroupEmpty, GroupShortBox, GroupFewLabels,
     GroupNoLabels, GroupNullLabel}

RECURSIVE SeqsUpTo(_, _)
SeqsUpTo(S, n) ==
    IF n = 0 THEN {<<>>}
    ELSE LET shorter == SeqsUpTo(S, n - 1)
         IN  shorter \cup {Append(q, x) : q \in shorter, x \in S}

\* the boxes of a list of groups: no call can insert more rows than this
RECURSIVE BoxCount(_)
BoxCount(gs) ==
    IF gs = <<>> THEN 0
    ELSE Len(gs[1].boxes) + BoxCount(Tail(gs))

BeginCall ==
    /\ exc' = "none"
    /\ failedStage' = "none"
    /\ started' = {}
    /\ completed' = {}
    /\ did' = {}

TestCreate ==
    /\ caller = "test"
    /\ pc = "idle"
    /\ pc' = "schema"
    /\ BeginCall
    /\ UNCHANGED <<caller, conn, model>>
    /\ UNCHANGED <<fetchVars, detectVars, dbVars>>

TestStore ==
    /\ caller = "test"
    /\ pc = "idle"
    /\ \E gs \in SeqsUpTo(SampleGroups, MaxGroups) :
        /\ Len(table) + BoxCount(gs) <= MaxRows
        /\ detections' = gs
    /\ pc' = "store"
    /\ BeginCall
    /\ UNCHANGED <<caller, conn, model, seen, acc>>
    /\ UNCHANGED <<fetchVars, dbVars>>

----------------------------------------------------------------------------
(* Starting states *)

EmptyDir == [f \in Files |-> Absent]

\* a row left in the database file by an earlier run
OldRow(id) ==
    InsertedRow(id, FileName(0),
                [box |-> Take(RowA, 4), label |-> "cream jar", confidence |-> "0.87"])

OldTables == {[k \in 1 .. n |-> OldRow(k)] : n \in 0 .. MaxOldRows}

InitLocals ==
    /\ exc = "none"
    /\ failedStage = "none"
    /\ i = 0
    /\ requests = <<>>
    /\ bodies = <<>>
    /\ dir0 = dir
    /\ seen = {}
    /\ acc = <<>>
    /\ detections = <<>>
    /\ tx = <<>>
    /\ gi = 1
    /\ bi = 1
    /\ table0 = table
    /\ started = {}
    /\ completed = {}
    /\ did = {}

\* main() is started: the image directory is missing or holds the images
\* of an earlier run, the database file is new or left by an earlier run
Init ==
    /\ caller = "main"
    /\ pc = "connect"
    /\ conn = "none"
    /\ model = "none"
    /\ dirExists \in BOOLEAN
    /\ dir = IF dirExists THEN [f \in Files |-> Img(0)] ELSE EmptyDir
    /\ tables \in SUBSET {TableName}
    /\ table \in (IF TableName \in tables THEN OldTables ELSE {<<>>})
    /\ InitLocals

Next ==
    \/ Connect
    \/ LoadModel
    \/ FetchMakedirs
    \/ FetchOne
    \/ FetchReturn
    \/ DetectOne
    \/ DetectReturn
    \/ CreateTable
    \/ StoreEnter
    \/ StoreInsert
    \/ StoreCommit
    \/ Close

Spec == Init /\ [][Next]_vars

\* a test calls download_images_from_telegram on some directory
InitFetch ==
    /\ caller = "test"
    /\ pc = "fetch"
    /\ conn = "none"
    /\ model = "none"
    /\ dirExists \in BOOLEAN
    /\ dir \in (IF dirExists THEN [Files -> {Absent, Img(0)}] ELSE {EmptyDir})
    /\ tables = {}
    /\ table = <<>>
    /\ InitLocals

NextFetch ==
    \/ FetchMakedirs
    \/ FetchOne
    \/ FetchReturn

SpecFetch == InitFetch /\ [][NextFetch]_vars

\* a test calls detect_objects_in_images on some directory
InitDetect ==
    /\ caller = "test"
    /\ pc = "detect"
    /\ conn = "none"
    /\ model = "loaded"
    /\ dirExists \in BOOLEAN
    /\ dir \in (IF dirExists THEN [Files -> {Absent, Garbage} \cup Images]
                ELSE {EmptyDir})
    /\ tables = {}
    /\ table = <<>>
    /\ InitLocals

NextDetect ==
    \/ DetectOne
    \/ DetectReturn

SpecDetect == InitDetect /\ [][NextDetect]_vars

\* a test opens a connection to a new database file and calls
\* create_database_table and store_detection_results in any order
InitStore ==
    /\ caller = "test"
    /\ pc = "idle"
    /\ conn = "open"
    /\ model = "none"
    /\ dirExists = FALSE
    /\ dir = EmptyDir
    /\ tables = {}
    /\ table = <<>>
    /\ InitLocals

NextStore ==
    \/ TestCreate
    \/ TestStore
    \/ CreateTable
    \/ StoreEnter
    \/ StoreInsert
    \/ StoreCommit

SpecStore == InitStore /\ [][NextStore]_vars

----------------------------------------------------------------------------
(* Properties *)

Terminated == pc \in {"done", "raised"}

DbStages == {"schema", "store"}
DbWrites == {"create", "insert"}
Failures == {"decode_fail", "infer_fail"}

\* C1: when a run of main() has terminated, normally or by an exception of
\* any stage, the connection it opened is closed.
C1_ClosedOnEveryExit == Terminated => conn # "open"

\* the rows a call inserts for well-formed groups, appended to `rows`
RECURSIVE RowsAfter(_, _, _)
RowsAfter(gs, k, rows) ==
    IF gs = <<>> THEN rows
    ELSE LET z == Zip(gs[1].boxes, gs[1].labels, gs[1].confidences)
         IN  IF k > Len(z) THEN RowsAfter(Tail(gs), 1, rows)
             ELSE RowsAfter(gs, k + 1,
                      Append(rows, InsertedRow(NextId(rows), gs[1].image,
                                 [z[k] EXCEPT !.box = Take(z[k].box, 4)])))

StoreReturned == pc = "idle" /\ "store" \in started

\* C2: when store_detection_results has returned or raised, no transaction
\* is left open; if it returned, the table holds its old rows followed by
\* every row of the call; if it raised, the table holds exactly its old
\* rows; and a failed insert always makes the call raise.
C2_AllOrNothing ==
    StoreReturned =>
        /\ tx = <<>>
        /\ exc = "none" => table = RowsAfter(detections, 1, table0)
        /\ exc # "none" => table = table0
        /\ "insert_fail" \in did => exc # "none"

\* an insert failed after another insert of the same call had succeeded,
\* on a table that already held rows
C2_Witness ==
    /\ StoreReturned
    /\ {"insert", "insert_fail"} \subseteq did
    /\ table0 # <<>>
    /\ table = table0

\* the (box, label, confidence) triples of a list of groups
RECURSIVE TripleCount(_)
TripleCount(gs) ==
    IF gs = <<>> THEN 0
    ELSE LET g == gs[1]
             n == IF Len(g.boxes) <= Len(g.labels) /\ Len(g.boxes) <= Len(g.confidences)
                  THEN Len(g.boxes)
                  ELSE IF Len(g.labels) <= Len(g.confidences)
                  THEN Len(g.labels)
                  ELSE Len(g.confidences)
         IN  n + TripleCount(Tail(gs))

\* C3: when store_detection_results has returned normally for groups that
\* hold k triples, the table holds k rows more than before the call.
C3_InsertsExactlyK ==
    (pc = "idle" /\ "store" \in completed) =>
        Len(table) = Len(table0) + TripleCount(detections)

\* a call with two groups, one of them with fewer labels than boxes, has
\* returned
C3_Witness ==
    /\ pc = "idle"
    /\ "store" \in completed
    /\ Len(detections) = 2
    /\ \E k \in 1 .. 2 : Len(detections[k].labels) < Len(detections[k].boxes)
    /\ TripleCount(detections) >= 2

C4_Order ==
    /\ (DbStages \cap started # {} \/ DbWrites \cap did # {} \/ tx # <<>>)
           => "detect" \in completed
    /\ ("detect" \in started \/ "infer" \in did)
           => ("fetch" \in completed /\ Len(bodies) = BatchSize)
    /\ failedStage # "none" => pc = "raised"

C4_NothingAfterFailure ==
    failedStage # "none" =>
        /\ started' = started
        /\ did' = did
        /\ <<tables, table, tx>>' = <<tables, table, tx>>

\* C4: in a run of main(), the database is written only after the detector
\* returned normally, the capability is invoked only after the fetcher
\* returned normally with all 5 images written, and once a stage has raised
\* no stage is started and nothing more is done.
C4_FailureIsFatal == []C4_Order /\ [][C4_NothingAfterFailure]_vars

\* the detector raised after the fetcher completed; the database is untouched
C4_Witness ==
    /\ pc = "raised"
    /\ failedStage = "detect"
    /\ "fetch" \in completed
    /\ "infer" \in did
    /\ DbStages \cap started = {}

DetectReturned == pc = "idle" /\ "detect" \in started

\* C6: when the detector has returned normally, no decode or inference
\* failed and it returned one group per file of the directory, each with
\* that file's name (none for a directory without files); when decoding or
\* inference failed on an image, it raised and returned nothing.
C6_OneGroupPerImage ==
    /\ DetectReturned /\ exc = "none" =>
        /\ Failures \cap did = {}
        /\ Len(detections) = Cardinality(Glob(dirExists, dir))
        /\ {detections[k].image : k \in DOMAIN detections} = Glob(dirExists, dir)
    /\ Failures \cap did # {} =>
        /\ pc = "idle"
        /\ exc # "none"
        /\ detections = <<>>

\* decoding or inference failed after groups of other images were collected
C6_Witness ==
    /\ DetectReturned
    /\ Failures \cap did # {}
    /\ Len(acc) >= 2
    /\ detections = <<>>

IsPrefix(s, t) == Len(s) <= Len(t) /\ SubSeq(t, 1, Len(s)) = s

\* C7: no step of create_database_table or store_detection_results removes
\* or changes a committed row (same id, same seven fields) or removes the
\* table.
C7_AppendOnly == [][IsPrefix(table, table') /\ tables \subseteq tables']_vars

\* create_database_table has returned on a table holding several rows
C7_Witness ==
    /\ pc = "idle"
    /\ "schema" \in completed
    /\ Len(table) >= 2

\* C8: whenever create_database_table has been called, on a database with
\* or without the table, and no statement failed for a reason of the
\* database itself, it returned normally, there is exactly one
\* object_detections table, and the rows are those from before the call.
C8_CreateIdempotent ==
    (pc = "idle" /\ "schema" \in started /\ "db_fault" \notin did) =>
        /\ exc = "none"
        /\ Cardinality(tables) = 1
        /\ table = table0

\* create_database_table has returned on a database whose table already
\* existed and held rows
C8_Witness ==
    /\ pc = "idle"
    /\ "schema" \in completed
    /\ table0 # <<>>
    /\ table = table0

RowFields ==
    {"image_name", "label", "confidence", "x_center", "y_center", "width", "height"}

\* C9: every committed row has all seven fields present.
C9_NoPartialRow ==
    \A k \in DOMAIN table : \A c \in RowFields : table[k][c] # NULL

FailedIndex == requests[Len(requests)].idx

\* C10: when the fetcher was ended by a request that raised at index i, the
\* files of the indices below i hold the bodies fetched by this call and
\* the files of index i and above are as they were before the call.
C10_PartialDirectory ==
    (failedStage = "fetch" /\ exc = "RequestException") =>
        /\ \A j \in 0 .. FailedIndex - 1 : dir[FileName(j)] = bodies[j + 1]
        /\ \A j \in FailedIndex .. BatchSize - 1 : dir[FileName(j)] = dir0[FileName(j)]

\* the request for index 2 raised: two files were overwritten, the file
\* image_2.jpg of an earlier run is still there
C10_Witness ==
    /\ failedStage = "fetch"
    /\ exc = "RequestException"
    /\ FailedIndex = 2
    /\ dir[FileName(0)] # dir0[FileName(0)]
    /\ dir0[FileName(2)] = Img(0)
    /\ dir[FileName(3)] = Absent

====
